---- MODULE Spec2Model ----
(***************************************************************************)
(* A model of tmuxcast's live-streaming pipeline (src/tmuxcast/stream.py). *)
(* This part covers StreamBuffer, the trimming ring buffer with             *)
(* offset-addressed reads and header replay, and the callers that exercise *)
(* it: a writer, a caller that issues single read_from / has_new_data      *)
(* calls with arbitrary arguments, and readers that chain read_from calls. *)
(***************************************************************************)
EXTENDS Integers, Sequences, FiniteSets, TLC

(***************************************************************************)
(* Bounds of the model.                                                    *)
(***************************************************************************)
\* largest max_size a buffer is constructed with
MaxMaxSize == 4
\* cap on the total number of bytes written in one behaviour
MaxTotal == 6
\* longest chunk handed to one write call
MaxChunk == 3
\* longest header handed to set_header
MaxHdr == 2
\* largest max_bytes argument tried
MaxBytes == 3
\* how often the same read is repeated and compared
MaxRepeat == 1

\* StreamBuffer never inspects the bytes it stores, so one labelling of the
\* bytes stands for all: the payload byte at logical offset k is k (mod 256)
\* and the i-th byte of a header is 256 - i, so that a byte delivered out of
\* place, twice or not at all is visible, and so is a header byte delivered
\* as payload
PayloadFrom(k, n) == [i \in 1..n |-> (k + i - 1) % 256]
HeaderOfLen(n) == [i \in 1..n |-> (256 - i) % 256]
Headers == {HeaderOfLen(n) : n \in 0..MaxHdr}

\* Optional[int]: None is [set |-> FALSE], an int v is [set |-> TRUE, val |-> v]
NoneMB == [set |-> FALSE, val |-> 0]
SomeMB(v) == [set |-> TRUE, val |-> v]
MaxBytesArgs == {NoneMB} \cup {SomeMB(v) : v \in (0 - 1)..MaxBytes}
Positions == (0 - 1)..(MaxTotal + 1)

VARIABLES
    \* StreamBuffer fields
    max_size,        \* self._max_size
    header,          \* self._header
    header_ready,    \* self._header_ready
    buffer,          \* self._buffer (the retained window)
    total_written,   \* self._total_written
    \* history of the calls made on the buffer
    written,         \* every byte ever passed to write, in order
    first_header,    \* the argument of the first set_header call
    \* the last read_from call made since the buffer last changed
    call,
    \* a reader that chains read_from calls from position 0 with the header
    rd_position, rd_first_read, rd_max_bytes, rd_received, rd_done,
    \* two independent cursors (functions over Cursors)
    cur_start, cur_position, cur_received, cur_overrun,
    \* HTTP stream connections (functions over Conns)
    conn_state,      \* where the handler of the connection is
    conn_position,   \* position of _serve_stream
    conn_first_read, \* first_read of _serve_stream
    conn_body,       \* the bytes written to the socket as response body
    conn_hdr_reads,  \* how many reads of the connection prepended header bytes
    \* the encoder process, as FrameEncoder sees it
    enc_stream,      \* the bytes the process writes to its stdout, if it lives
    enc_off,         \* how many of them _read_output has read
    enc_process,     \* "none": self._process is None; else "alive" or "dead"
    \* FrameEncoder fields and the locals of its reader thread
    enc_running,     \* self._running
    enc_header,      \* self._header
    enc_header_complete, \* self._header_complete
    enc_queue,       \* self._output_queue
    header_buffer,   \* header_buffer of _read_output
    enc_pc,          \* where the reader thread is
    enc_chunk,       \* chunk of _read_output
    enc_lost,        \* the chunks the reader thread gave up enqueueing
    enc_dropped,     \* the chunks it discarded from the queue
    wf_calls,        \* how many write_frame calls were made on a dead process
    wf_raised,       \* whether a write_frame call has raised
    \* VideoStreamer fields and the locals of its pump thread
    vs_running,      \* self._running
    frames_written,  \* self._frames_written
    pump_pc,         \* where the pump thread is
    pump_data,       \* data of _pump_data
    pump_header_set, \* header_set of _pump_data
    \* StreamServer and the callers of the orchestrator
    srv_state,       \* "none": no listener; "serving": serve_forever runs;
                     \* "shutdown": shutdown() was called and waits; "stopped"
    active_connections, \* self._active_connections
    conn_kind,       \* the path each connection requests (function over Conns)
    stop_pc,         \* where the caller of VideoStreamer.stop() is
    wf_returned,     \* how many VideoStreamer.write_frame calls have returned
    \* the threads, statement by statement
    wf_pc,           \* where the producer thread is inside write_frame
    lock_holder,     \* the thread that holds each lock, or "free"
    lk_pc            \* where each thread is relative to its locked sections

bufvars == <<max_size, header, header_ready, buffer, total_written>>
histvars == <<written, first_header>>
rdvars == <<rd_position, rd_first_read, rd_max_bytes, rd_received, rd_done>>
curvars == <<cur_start, cur_position, cur_received, cur_overrun>>
connvars == <<conn_state, conn_position, conn_first_read, conn_body,
              conn_hdr_reads>>
encvars == <<enc_stream, enc_off, enc_process, enc_running, enc_header,
             enc_header_complete, enc_queue, header_buffer, enc_pc, enc_chunk,
             enc_lost, enc_dropped, wf_calls, wf_raised>>
vsvars == <<vs_running, frames_written, pump_pc, pump_data, pump_header_set>>
pipevars == <<encvars, vsvars>>
finevars == <<wf_pc, lock_holder, lk_pc>>
srvvars == <<srv_state, active_connections, conn_kind, stop_pc, wf_returned,
             finevars>>
vars == <<bufvars, histvars, call, rdvars, curvars, connvars, pipevars, srvvars>>

Min(a, b) == IF a < b THEN a ELSE b
Max(a, b) == IF a > b THEN a ELSE b

(***************************************************************************)
(* Python slices of a sequence: s[:k] and s[k:], negative k counting from  *)
(* the end.                                                                *)
(***************************************************************************)
PySliceTo(s, k) ==
    LET stop == IF k < 0 THEN Max(Len(s) + k, 0) ELSE Min(k, Len(s))
    IN SubSeq(s, 1, stop)

PySliceFrom(s, k) ==
    LET start == IF k < 0 THEN Max(Len(s) + k, 0) ELSE Min(k, Len(s))
    IN SubSeq(s, start + 1, Len(s))

\* Python truthiness of the max_bytes argument: None and 0 are false
Truthy(max_bytes) == max_bytes.set /\ max_bytes.val # 0

(***************************************************************************)
(* StreamBuffer                                                            *)
(***************************************************************************)
\* logical offset of the first retained byte (available_start in the code)
trim_start == total_written - Len(buffer)

\* int(self._max_size * 0.75): the product is exact in floating point for
\* every max_size below 2^51, and int() truncates it
keep_size_half == max_size \div 2
keep_size == (3 * max_size) \div 4

\* the trimming step of write, applied to the window after the append
trimmed_never(buf) == buf
trimmed_at_keep(buf) ==
    IF Len(buf) > keep_size
    THEN PySliceFrom(buf, Len(buf) - keep_size)
    ELSE buf
trimmed(buf) ==
    IF Len(buf) > max_size
    THEN PySliceFrom(buf, Len(buf) - keep_size)
    ELSE buf

\* has_new_data(position)
has_new_data_inclusive(position) ==
    IF position < 0 THEN TRUE
    ELSE IF position < trim_start THEN TRUE
    ELSE position <= total_written
has_new_data_short(position) ==
    IF position < 0 THEN TRUE
    ELSE IF position < trim_start THEN TRUE
    ELSE position < total_written - 1
has_new_data(position) ==
    IF position < 0 THEN TRUE
    ELSE IF position < trim_start THEN TRUE
    ELSE position < total_written

\* read_from: whether the header branch is taken
header_branch(position, include_header) ==
    include_header /\ position = 0 /\ header # <<>>

\* read_from: the position after "if position < 0" and the trimming adjustment
clamped_into_window(position) ==
    LET p0 == IF position < 0 THEN 0 ELSE position
    IN Min(IF p0 < trim_start THEN trim_start ELSE p0, total_written)
clamped(position) ==
    LET p0 == IF position < 0 THEN 0 ELSE position
    IN IF p0 < trim_start THEN trim_start ELSE p0

\* read_from: bytes(self._buffer[buffer_offset:])
available_data_off_by_one(buffer_offset) == PySliceFrom(buffer, buffer_offset + 1)
available_data(buffer_offset) == PySliceFrom(buffer, buffer_offset)

\* read_from(position, include_header, max_bytes) -> (data, new_position)
read_from(position, include_header, max_bytes) ==
    IF header_branch(position, include_header)
       /\ Truthy(max_bytes) /\ Len(header) > max_bytes.val
    THEN \* the header is sent in chunks: early return
         LET result == PySliceTo(header, max_bytes.val)
         IN [data |-> result, new_position |-> position + Len(result)]
    ELSE
    LET result0 == IF header_branch(position, include_header) THEN header ELSE <<>>
        pos == clamped(position)
        buffer_offset == pos - trim_start
    IN IF buffer_offset < Len(buffer)
       THEN LET avail == available_data(buffer_offset)
            IN IF Truthy(max_bytes)
               THEN LET chunk_size == Min(max_bytes.val, Len(avail))
                        result == result0 \o PySliceTo(avail, chunk_size)
                    IN [data |-> result, new_position |-> pos + Len(result)]
               ELSE [data |-> result0 \o avail, new_position |-> total_written]
       ELSE [data |-> result0, new_position |-> pos]

(***************************************************************************)
(* The record of one read_from call, as its caller sees it.                *)
(***************************************************************************)
NoCall == [made |-> FALSE, position |-> 0, include_header |-> FALSE,
           max_bytes |-> NoneMB, had_new |-> FALSE, data |-> <<>>,
           new_position |-> 0, repeats |-> 0, stable |-> TRUE]

SameArgs(c, position, include_header, max_bytes) ==
    /\ c.made
    /\ c.position = position
    /\ c.include_header = include_header
    /\ c.max_bytes = max_bytes

(***************************************************************************)
(* Actions on the buffer                                                   *)
(***************************************************************************)
\* the effect of StreamBuffer.set_header(h) on the buffer
set_header(h) ==
    /\ header' = h
    /\ header_ready' = TRUE
    /\ first_header' = IF header_ready THEN first_header ELSE h

\* the effect of StreamBuffer.write(data) on the buffer
write(data) ==
    /\ buffer' = trimmed(buffer \o data)
    /\ total_written' = total_written + Len(data)
    /\ written' = written \o data

\* StreamBuffer.set_header(h)
SetHeader(h) ==
    /\ set_header(h)
    /\ call' = NoCall
    /\ UNCHANGED <<max_size, buffer, total_written, written, rdvars, curvars,
                   connvars, pipevars, srvvars>>

\* StreamBuffer.write(data)
Write(data) ==
    /\ write(data)
    /\ call' = NoCall
    /\ UNCHANGED <<max_size, header, header_ready, first_header, rdvars, curvars,
                   connvars, pipevars, srvvars>>

\* one caller asks has_new_data(position) and then calls
\* read_from(position, include_header, max_bytes), with any arguments, in any
\* state of the buffer; it then repeats that call until the buffer changes
Probe(position, include_header, max_bytes) ==
    LET r == read_from(position, include_header, max_bytes)
        h == has_new_data(position)
    IN /\ ~call.made \/ SameArgs(call, position, include_header, max_bytes)
       /\ call' =
            IF SameArgs(call, position, include_header, max_bytes)
            THEN [call EXCEPT
                    !.repeats = Min(call.repeats + 1, MaxRepeat),
                    !.stable = call.stable /\ r.data = call.data
                               /\ r.new_position = call.new_position
                               /\ h = call.had_new]
            ELSE [made |-> TRUE, position |-> position,
                  include_header |-> include_header, max_bytes |-> max_bytes,
                  had_new |-> h, data |-> r.data,
                  new_position |-> r.new_position,
                  repeats |-> 0, stable |-> TRUE]
       /\ UNCHANGED <<bufvars, histvars, rdvars, curvars, connvars, pipevars, srvvars>>

Cursors == {1, 2}
Conns == {1, 2}

\* the state after StreamBuffer.__init__(max_size); nobody reads yet
InitBuffer ==
    /\ max_size \in 1..MaxMaxSize
    /\ header = <<>>
    /\ header_ready = FALSE
    /\ buffer = <<>>
    /\ total_written = 0
    /\ written = <<>>
    /\ first_header = <<>>
    /\ call = NoCall

InitNoReader ==
    /\ rd_position = 0
    /\ rd_first_read = TRUE
    /\ rd_max_bytes = NoneMB
    /\ rd_received = <<>>
    /\ rd_done = FALSE

InitNoCursors ==
    /\ cur_start = [i \in Cursors |-> 0]
    /\ cur_position = [i \in Cursors |-> 0]
    /\ cur_received = [i \in Cursors |-> <<>>]
    /\ cur_overrun = [i \in Cursors |-> FALSE]

\* no connection has been accepted
InitConns ==
    /\ conn_state = [c \in Conns |-> "new"]
    /\ conn_position = [c \in Conns |-> 0]
    /\ conn_first_read = [c \in Conns |-> TRUE]
    /\ conn_body = [c \in Conns |-> <<>>]
    /\ conn_hdr_reads = [c \in Conns |-> 0]

\* FrameEncoder.__init__ and VideoStreamer.__init__: nothing is started
InitIdlePipe ==
    /\ enc_off = 0
    /\ enc_process = "none"
    /\ enc_running = FALSE
    /\ enc_header = <<>>
    /\ enc_header_complete = FALSE
    /\ enc_queue = <<>>
    /\ header_buffer = <<>>
    /\ enc_pc = "idle"
    /\ enc_chunk = <<>>
    /\ enc_lost = 0
    /\ enc_dropped = 0
    /\ wf_calls = 0
    /\ wf_raised = FALSE
    /\ vs_running = FALSE
    /\ frames_written = 0
    /\ pump_pc = "idle"
    /\ pump_data = <<>>
    /\ pump_header_set = FALSE

\* no encoder output: the buffer and the server are used on their own
InitNoPipe ==
    /\ enc_stream = <<>>
    /\ InitIdlePipe

\* the three locks of the program: FrameEncoder._header_lock,
\* StreamBuffer._lock and StreamServer._connection_lock
Locks == {"header_lock", "buffer_lock", "connection_lock"}
\* the threads that take them: the encoder's reader thread, the pump, the
\* server thread (which runs the request handlers) and the owner of the
\* orchestrator, which asks for the connection count
Threads == {"reader", "pump", "server", "owner"}
\* the statement each thread starts at
Entry == [t \in Threads |->
             CASE t = "reader" -> "read"
               [] t = "pump" -> "get"
               [] t = "server" -> "accept"
               [] t = "owner" -> "idle"]
\* no lock taken, every thread at its first statement
InitThreads ==
    /\ lock_holder = [l \in Locks |-> "free"]
    /\ lk_pc = Entry

\* StreamServer.__init__: no listener, no connection counted; stop() and
\* write_frame have not been called
InitServer ==
    /\ srv_state = "none"
    /\ active_connections = 0
    /\ conn_kind = [c \in Conns |-> "stream"]
    /\ stop_pc = "idle"
    /\ wf_returned = 0
    /\ wf_pc = "idle"
    /\ InitThreads

Init ==
    /\ InitBuffer /\ InitNoReader /\ InitNoCursors /\ InitConns /\ InitNoPipe
    /\ InitServer

Next ==
    \/ \E h \in Headers : SetHeader(h)
    \/ \E n \in 0..MaxChunk :
          /\ total_written + n <= MaxTotal
          /\ Write(PayloadFrom(total_written, n))
    \/ \E position \in Positions, include_header \in BOOLEAN,
          max_bytes \in MaxBytesArgs :
            Probe(position, include_header, max_bytes)

Spec == Init /\ [][Next]_vars

(***************************************************************************)
(* A reader that joins at position 0: its first read_from asks for the     *)
(* header, every later one starts at the new_position the previous one     *)
(* returned, and it stops when has_new_data says there is nothing more.    *)
(* max_bytes is the reader's setting, the same in all its calls.           *)
(***************************************************************************)
RdRead ==
    /\ ~rd_done
    /\ has_new_data(rd_position) \/ rd_first_read
    /\ LET r == read_from(rd_position, rd_first_read, rd_max_bytes)
       IN /\ rd_received' = rd_received \o r.data
          /\ rd_position' = r.new_position
    /\ rd_first_read' = FALSE
    /\ UNCHANGED <<bufvars, histvars, call, rd_max_bytes, rd_done, curvars,
                   connvars, pipevars, srvvars>>

RdStop ==
    /\ ~rd_done
    /\ ~(has_new_data(rd_position) \/ rd_first_read)
    /\ rd_done' = TRUE
    /\ UNCHANGED <<bufvars, histvars, call, rd_position, rd_first_read,
                   rd_max_bytes, rd_received, curvars, connvars, pipevars, srvvars>>

InitRoundTrip ==
    /\ InitBuffer
    /\ rd_position = 0
    /\ rd_first_read = TRUE
    /\ rd_max_bytes \in {NoneMB} \cup {SomeMB(v) : v \in 0..MaxBytes}
    /\ rd_received = <<>>
    /\ rd_done = FALSE
    /\ InitNoCursors
    /\ InitConns
    /\ InitNoPipe
    /\ InitServer

\* the header is stored before the reader's first read; the writer writes
\* until the reader has stopped
NextRoundTrip ==
    \/ \E h \in Headers : rd_first_read /\ SetHeader(h)
    \/ \E n \in 0..MaxChunk :
          /\ ~rd_done
          /\ total_written + n <= MaxTotal
          /\ Write(PayloadFrom(total_written, n))
    \/ RdRead
    \/ RdStop

SpecRoundTrip == InitRoundTrip /\ [][NextRoundTrip]_vars

(***************************************************************************)
(* Two cursors, each held by its own caller: a caller reads from its       *)
(* cursor without the header, with any max_bytes, and moves the cursor to  *)
(* the new_position it got. cur_overrun[i] records that a read found       *)
(* cursor i behind the retained window.                                    *)
(***************************************************************************)
CurRead(i, max_bytes) ==
    LET r == read_from(cur_position[i], FALSE, max_bytes)
    IN /\ cur_received' = [cur_received EXCEPT ![i] = @ \o r.data]
       /\ cur_position' = [cur_position EXCEPT ![i] = r.new_position]
       /\ cur_overrun' = [cur_overrun EXCEPT
                            ![i] = @ \/ cur_position[i] < trim_start]
       /\ UNCHANGED <<bufvars, histvars, call, rdvars, cur_start, connvars, pipevars, srvvars>>

InitCursors ==
    /\ InitBuffer
    /\ InitNoReader
    /\ cur_start \in {[i \in Cursors |-> IF i = 1 THEN 0 ELSE n] : n \in 0..MaxTotal}
    /\ cur_position = cur_start
    /\ cur_received = [i \in Cursors |-> <<>>]
    /\ cur_overrun = [i \in Cursors |-> FALSE]
    /\ InitConns
    /\ InitNoPipe
    /\ InitServer

NextCursors ==
    \/ \E n \in 0..MaxChunk :
          /\ total_written + n <= MaxTotal
          /\ Write(PayloadFrom(total_written, n))
    \/ \E i \in Cursors, max_bytes \in MaxBytesArgs : CurRead(i, max_bytes)

SpecCursors == InitCursors /\ [][NextCursors]_vars

(***************************************************************************)
(* The end-to-end scenario of the buffer: max_size = 1000, ten writes of   *)
(* 150 bytes, and a reader that asks for the header at position 0, with    *)
(* max_bytes unset or the 64 KiB of the stream handler.                    *)
(***************************************************************************)
InitScenario ==
    /\ InitNoReader
    /\ InitNoCursors
    /\ InitConns
    /\ InitNoPipe
    /\ InitServer
    /\ max_size = 1000
    /\ header = <<>>
    /\ header_ready = FALSE
    /\ buffer = <<>>
    /\ total_written = 0
    /\ written = <<>>
    /\ first_header = <<>>
    /\ call = NoCall

NextScenario ==
    \/ \E h \in Headers : ~header_ready /\ SetHeader(h)
    \/ /\ total_written < 10 * 150
       /\ Write(PayloadFrom(total_written, 150))
    \/ \E max_bytes \in {NoneMB, SomeMB(65536)} : Probe(0, TRUE, max_bytes)

SpecScenario == InitScenario /\ [][NextScenario]_vars

(***************************************************************************)
(* StreamHandler._serve_stream: one handler thread per connection.         *)
(* A connection is "new" until its GET is dispatched, then "await" while   *)
(* it polls is_header_ready, then "streaming" (200 and the response        *)
(* headers are sent), "refused" after the 503 of the header timeout, or    *)
(* "closed" after a write or connection error ended the streaming loop.    *)
(***************************************************************************)
\* chunk_size of _serve_stream: 65536 in the code, scaled down here together
\* with the header lengths, which lie on both sides of it (a header can be
\* longer than one chunk: the extractor's fallback header is longer than
\* 65536 bytes)
chunk_size == 2
ConnHeaders == {HeaderOfLen(n) : n \in 0..(chunk_size + 1)}

\* StreamServer.start(): the listener is bound and serve_forever runs in a
\* thread of its own
SrvStart ==
    /\ srv_state = "none"
    /\ srv_state' = "serving"
    /\ UNCHANGED <<bufvars, histvars, call, rdvars, curvars, connvars, pipevars,
                   active_connections, conn_kind, stop_pc, wf_returned, finevars>>

\* the paths a client asks for
Kinds == {"stream", "health"}

\* a client connects to the listening socket and sends GET for a path; the
\* connection waits in the backlog until serve_forever accepts it
ConnConnect(c, kind) ==
    /\ conn_state[c] = "new"
    /\ srv_state # "none"
    /\ conn_state' = [conn_state EXCEPT ![c] = "queued"]
    /\ conn_kind' = [conn_kind EXCEPT ![c] = kind]
    /\ UNCHANGED <<bufvars, histvars, call, rdvars, curvars, conn_position,
                   conn_first_read, conn_body, conn_hdr_reads, pipevars,
                   srv_state, active_connections, stop_pc, wf_returned, finevars>>

\* HTTPServer handles a request inside serve_forever, in the one server
\* thread: from the accept to the end of the handler's __init__ that thread
\* is busy with this connection
Handling == {"await", "streaming", "refused", "closed", "answered", "finished"}
Busy == \E d \in Conns : conn_state[d] \in Handling

\* serve_forever accepts the connection and constructs its handler, whose
\* do_GET dispatches /stream.mp4 or / to _serve_stream
ConnAccept(c) ==
    /\ conn_state[c] = "queued"
    /\ conn_kind[c] = "stream"
    /\ srv_state = "serving"
    /\ ~Busy
    /\ conn_state' = [conn_state EXCEPT ![c] = "await"]
    /\ UNCHANGED <<bufvars, histvars, call, rdvars, curvars, conn_position,
                   conn_first_read, conn_body, conn_hdr_reads, pipevars, srvvars>>

\* the same for a GET /health: _serve_health answers 200 with the JSON body
ConnHealth(c) ==
    /\ conn_state[c] = "queued"
    /\ conn_kind[c] = "health"
    /\ srv_state = "serving"
    /\ ~Busy
    /\ conn_state' = [conn_state EXCEPT ![c] = "answered"]
    /\ UNCHANGED <<bufvars, histvars, call, rdvars, curvars, conn_position,
                   conn_first_read, conn_body, conn_hdr_reads, pipevars, srvvars>>

\* StreamBuffer.is_header_ready()
is_header_ready_always == TRUE
is_header_ready == header_ready

\* the wait loop ends because is_header_ready() is true: 200 and the response
\* headers are sent, position = 0, first_read = True
ConnStart(c) ==
    /\ conn_state[c] = "await"
    /\ is_header_ready
    /\ conn_state' = [conn_state EXCEPT ![c] = "streaming"]
    /\ conn_position' = [conn_position EXCEPT ![c] = 0]
    /\ conn_first_read' = [conn_first_read EXCEPT ![c] = TRUE]
    /\ UNCHANGED <<bufvars, histvars, call, rdvars, curvars, conn_body,
                   conn_hdr_reads, pipevars, srvvars>>

\* the header is still not ready after 10 s: send_error(503) and return
ConnTimeout(c) ==
    /\ conn_state[c] = "await"
    /\ ~is_header_ready
    /\ conn_state' = [conn_state EXCEPT ![c] = "refused"]
    /\ UNCHANGED <<bufvars, histvars, call, rdvars, curvars, conn_position,
                   conn_first_read, conn_body, conn_hdr_reads, pipevars, srvvars>>

\* one iteration of the streaming loop that takes the read branch and whose
\* socket write (if any) succeeds
ConnRead(c) ==
    /\ conn_state[c] = "streaming"
    /\ has_new_data(conn_position[c]) \/ conn_first_read[c]
    /\ LET r == read_from(conn_position[c], conn_first_read[c],
                          SomeMB(chunk_size))
       IN /\ conn_body' = [conn_body EXCEPT ![c] = @ \o r.data]
          /\ conn_position' = [conn_position EXCEPT ![c] =
                                 IF r.data # <<>> THEN r.new_position ELSE @]
          /\ conn_hdr_reads' = [conn_hdr_reads EXCEPT ![c] =
                IF header_branch(conn_position[c], conn_first_read[c])
                THEN @ + 1 ELSE @]
    /\ conn_first_read' = [conn_first_read EXCEPT ![c] = FALSE]
    /\ UNCHANGED <<bufvars, histvars, call, rdvars, curvars, conn_state, pipevars, srvvars>>

\* what a socket write or flush of the streaming loop can raise
ConnErrors == {"BrokenPipeError", "ConnectionResetError",
               "ConnectionAbortedError", "TimeoutError"}
\* the except clauses of the loop: the three disconnect errors, then Exception
caught_resets_only(e) == e = "ConnectionResetError"
caught(e) ==
    \/ e \in {"BrokenPipeError", "ConnectionResetError", "ConnectionAbortedError"}
    \/ e \in ConnErrors

\* a socket write or flush of the loop raises e: the loop breaks, or the
\* exception leaves _serve_stream
ConnError(c, e) ==
    /\ conn_state[c] = "streaming"
    /\ conn_state' = [conn_state EXCEPT ![c] =
                         IF caught(e) THEN "closed" ELSE "crashed"]
    /\ UNCHANGED <<bufvars, histvars, call, rdvars, curvars, conn_position,
                   conn_first_read, conn_body, conn_hdr_reads, pipevars, srvvars>>

\* TrackingHandler.finish(), called by the base __init__ when the request
\* has been served
decremented == Max(0, active_connections - 1)
ConnFinish(c) ==
    /\ conn_state[c] \in {"refused", "closed", "answered"}
    /\ conn_state' = [conn_state EXCEPT ![c] = "finished"]
    /\ active_connections' = decremented
    /\ UNCHANGED <<bufvars, histvars, call, rdvars, curvars, conn_position,
                   conn_first_read, conn_body, conn_hdr_reads, pipevars,
                   srv_state, conn_kind, stop_pc, wf_returned, finevars>>

\* TrackingHandler.__init__ after the base __init__ has returned
ConnCounted(c) ==
    /\ conn_state[c] = "finished"
    /\ conn_state' = [conn_state EXCEPT ![c] = "done"]
    /\ active_connections' = active_connections + 1
    /\ UNCHANGED <<bufvars, histvars, call, rdvars, curvars, conn_position,
                   conn_first_read, conn_body, conn_hdr_reads, pipevars,
                   srv_state, conn_kind, stop_pc, wf_returned, finevars>>

\* the steps of the server thread for connection c
ConnStep(c) ==
    \/ ConnAccept(c)
    \/ ConnHealth(c)
    \/ ConnStart(c)
    \/ ConnTimeout(c)
    \/ ConnRead(c)
    \/ ConnFinish(c)
    \/ ConnCounted(c)

\* the buffer with its writer, the header stored once (as the pump does),
\* and the connections
NextConn ==
    \/ SrvStart
    \/ \E h \in ConnHeaders : ~header_ready /\ SetHeader(h)
    \/ \E n \in 1..MaxChunk :
          /\ total_written + n <= MaxTotal
          /\ Write(PayloadFrom(total_written, n))
    \/ \E c \in Conns, kind \in Kinds : ConnConnect(c, kind)
    \/ \E c \in Conns : ConnStep(c)
    \/ \E c \in Conns, e \in ConnErrors : ConnError(c, e)

SpecConn == Init /\ [][NextConn]_vars

\* the same with a server thread that keeps running: serve_forever and the
\* handler it is executing take their next step when they have one.  Writers
\* and clients are free: nobody has to write, connect or disconnect.
SpecConnFair ==
    /\ Init
    /\ [][NextConn]_vars
    /\ WF_vars(SrvStart)
    /\ \A c \in Conns : WF_vars(ConnStep(c))

(***************************************************************************)
(* Claims about StreamBuffer, checked under Spec                           *)
(***************************************************************************)
\* the payload part of the data a read_from call returned: what follows the
\* header bytes, when the call took the header branch
StreamPart(c) ==
    LET hdr_len == IF c.include_header /\ c.position = 0 /\ header # <<>>
                   THEN Min(Len(header), Len(c.data))
                   ELSE 0
    IN SubSeq(c.data, hdr_len + 1, Len(c.data))

\* the bytes of the logical stream at offsets from..(to - 1)
Slice(from, to) == SubSeq(written, from + 1, to)

\* C2: in every reachable state the retained window is at most max_size long
\* (total_written - trim_start <= max_size), and no step decreases
\* total_written.
C2_WindowBounded ==
    /\ [](total_written - trim_start <= max_size)
    /\ [][total_written' >= total_written]_vars

C2_Witness ==
    /\ total_written > max_size
    /\ trim_start > 0
    /\ Len(buffer) = max_size

\* C3: a write that leaves more than max_size bytes in the window drops the
\* oldest bytes so that exactly floor(0.75 * max_size) of the most recently
\* written bytes remain, and trim_start becomes
\* total_written - floor(0.75 * max_size); a write that leaves at most
\* max_size bytes appends its data, evicts nothing and leaves trim_start as
\* it was.
C3_TrimToThreeQuarters ==
    [][written' # written =>
        LET n == Len(written') - Len(written)
            data == SubSeq(written', Len(written) + 1, Len(written'))
            keep == (3 * max_size) \div 4
        IN IF Len(buffer) + n > max_size
           THEN /\ Len(buffer') = keep
                /\ buffer' = SubSeq(written', Len(written') - keep + 1,
                                    Len(written'))
                /\ trim_start' = total_written' - keep
           ELSE /\ buffer' = buffer \o data
                /\ trim_start' = trim_start]_vars

C3_Witness ==
    /\ trim_start > 0
    /\ Len(buffer) = (3 * max_size) \div 4
    /\ Len(buffer) > 0
    /\ ~call.made

\* C5: after trimming, a read_from call with a position below trim_start
\* returns payload that starts exactly at logical offset trim_start, and its
\* new_position is trim_start plus the number of payload bytes returned
\* (stated for the calls whose max_bytes is unset or not negative).
C5_ResyncAtTrimStart ==
    (call.made /\ trim_start > 0 /\ call.position < trim_start
     /\ call.max_bytes.val >= 0) =>
        LET part == StreamPart(call)
        IN /\ part = Slice(trim_start, trim_start + Len(part))
           /\ call.new_position = trim_start + Len(part)

\* C7: the new_position a read_from call returns is never below the position
\* it was called with, whatever the arguments and the state of the buffer.
C7_PositionMonotone ==
    call.made => call.new_position >= call.position

C7_Witness ==
    /\ call.made
    /\ call.position > total_written
    /\ trim_start > 0
    /\ call.new_position = call.position

\* C8 as claimed: when has_new_data(p) is false, read_from(p, ...) returns
\* empty data and new_position = p for any include_header and max_bytes, and
\* so does every repetition of the call before the buffer changes.
C8_IdleReadIsEmpty ==
    (call.made /\ ~call.had_new) =>
        /\ call.data = <<>>
        /\ call.new_position = call.position
        /\ call.stable

\* C8 amended: when has_new_data(p) is false and the call does not take the
\* header branch (include_header is false, or p # 0, or no header is stored),
\* read_from(p, ...) returns empty data and new_position = p for any
\* max_bytes, and so does every repetition of the call before the buffer
\* changes.
C8_IdleReadIsEmptyNoHeader ==
    (call.made /\ ~call.had_new
     /\ ~(call.include_header /\ call.position = 0 /\ header # <<>>)) =>
        /\ call.data = <<>>
        /\ call.new_position = call.position
        /\ call.stable

C8_Witness ==
    /\ call.made
    /\ ~call.had_new
    /\ call.repeats >= 1
    /\ call.include_header
    /\ call.position = total_written
    /\ total_written > 0
    /\ header # <<>>
    /\ call.data = <<>>

\* C9: set_header is latched once: after a first set_header call with some
\* (non-empty) bytes the stored header is those bytes whatever was passed to
\* later calls, and a read_from that includes the whole header returns them
\* in front.
C9_HeaderLatchedOnce ==
    first_header # <<>> =>
        /\ header = first_header
        /\ (call.made /\ call.include_header /\ call.position = 0
            /\ ~Truthy(call.max_bytes)) =>
                SubSeq(call.data, 1, Len(first_header)) = first_header

\* C10: in every buffer state has_new_data(position) is true exactly when
\* position < trim_start or position < total_written.
C10_HasNewData ==
    /\ \A p \in Positions :
        has_new_data(p) <=> (p < trim_start \/ p < total_written)
    /\ call.made =>
        (call.had_new <=>
            (call.position < trim_start \/ call.position < total_written))

C10_Witness ==
    /\ call.made
    /\ call.had_new
    /\ call.position >= 0
    /\ call.position < trim_start
    /\ trim_start = total_written

(***************************************************************************)
(* Claims about chained reads                                              *)
(***************************************************************************)
\* C1: when the writes never exceeded max_size in total (nothing was
\* trimmed), a reader that started at position 0, asked for the header on its
\* first read, fed each new_position into the next call and stopped when
\* has_new_data was false has received exactly the header followed by exactly
\* the bytes written, for any max_bytes setting.
C1_RoundTrip ==
    (rd_done /\ total_written <= max_size) =>
        rd_received = header \o written

\* C6: two cursors, starting at offsets 0 and N, reading in any interleaving
\* with each other and with writes: as long as no read found a cursor behind
\* the retained window, the cursor has received exactly the bytes of the
\* logical stream from its start offset up to its position, and the position
\* is within the stream once anything was received.
C6_IndependentCursors ==
    \A i \in Cursors :
        ~cur_overrun[i] =>
            /\ cur_position[i] >= cur_start[i]
            /\ cur_received[i] = Slice(cur_start[i], cur_position[i])
            /\ (cur_received[i] # <<>> => cur_position[i] <= total_written)

C6_Witness ==
    /\ cur_start[2] > 0
    /\ trim_start > 0
    /\ ~cur_overrun[1] /\ ~cur_overrun[2]
    /\ Len(cur_received[1]) > cur_start[2]
    /\ cur_received[2] # <<>>
    /\ cur_position[1] # cur_position[2]

\* C4 as claimed: with max_size = 1000 and ten writes of 150 bytes, a first
\* read from position 0 with the header, made after all ten writes, returns
\* the header followed by the last 750 bytes written (offsets 750..1499).
C4_Last750 ==
    (call.made /\ total_written = 1500) =>
        call.data = header \o Slice(750, 1500)

\* C4 amended: that read returns the header followed by the last 900 bytes
\* written (offsets 600..1499): the seventh and the ninth write trim the
\* window to 750 bytes and the tenth appends 150 bytes to it.
C4_Last900 ==
    (call.made /\ total_written = 1500) =>
        call.data = header \o Slice(600, 1500)

C4_Witness ==
    /\ call.made
    /\ total_written = 1500
    /\ header # <<>>
    /\ call.max_bytes.set
    /\ Len(call.data) = Len(header) + 900

(***************************************************************************)
(* Claims about the size of one read and about connections                 *)
(***************************************************************************)
\* C11: whenever max_bytes is given (a positive number), one read_from call
\* returns at most max_bytes bytes in total, header bytes included, and its
\* new_position is the clamped start position advanced by exactly the number
\* of bytes returned.
C11_AtMostMaxBytes ==
    (call.made /\ call.max_bytes.set /\ call.max_bytes.val >= 1) =>
        /\ Len(call.data) <= call.max_bytes.val
        /\ call.new_position =
             Max(Max(call.position, 0), trim_start) + Len(call.data)

\* whether s starts with the whole of h
StartsWith(s, h) == Len(s) >= Len(h) /\ SubSeq(s, 1, Len(h)) = h

\* C12: when the header is longer than max_bytes (the chunk_size of the
\* connection), a new client reading from position 0 with header inclusion
\* receives the header in successive pieces of at most max_bytes each, and
\* has received the whole header, in order, before any payload byte: what it
\* has received is a prefix of the header, or the header followed by payload.
C12_LongHeaderInPieces ==
    \A c \in Conns :
        Len(header) > chunk_size =>
            \/ /\ Len(conn_body[c]) <= Len(header)
               /\ conn_body[c] = SubSeq(header, 1, Len(conn_body[c]))
            \/ /\ StartsWith(conn_body[c], header)
               /\ \E k \in 0..total_written :
                    SubSeq(conn_body[c], Len(header) + 1, Len(conn_body[c]))
                        = Slice(k, k + Len(conn_body[c]) - Len(header))

\* C13: a connection that has made its first read has sent the complete
\* header as the first bytes of its body, whenever it joined, and header
\* bytes were prepended on at most one of its reads.
C13_HeaderFirstOnce ==
    \A c \in Conns :
        ~conn_first_read[c] =>
            /\ StartsWith(conn_body[c], header)
            /\ conn_hdr_reads[c] <= 1

\* C14: the cursor of a streaming connection is an offset into the logical
\* stream, 0 <= cursor <= total_written.
C14_CursorInStream ==
    \A c \in Conns :
        conn_state[c] = "streaming" =>
            /\ 0 <= conn_position[c]
            /\ conn_position[c] <= total_written

(***************************************************************************)
(* FrameEncoder: the adapter around the encoder process.  Its reader       *)
(* thread (_read_output) reads the process's output in chunks, extracts    *)
(* the container header from the first of them and queues every chunk for  *)
(* the pump.  The byte counts of the code are scaled down so that the      *)
(* sequences stay short; their order is kept: ftyp_min < read_size <       *)
(* safety_limit = 2 * read_size.                                           *)
(***************************************************************************)
\* the most bytes one read of the process's stdout returns (32768 in the code)
read_size == 40
\* the scratch-buffer length above which the fallback fires (65536 in the code)
safety_limit == 80
\* the capacity of the output queue (120 in the code)
queue_maxsize == 2
\* cap on the number of write_frame calls in one behaviour
MaxFrames == 2
\* the scratch-buffer length from which the marker is searched
ftyp_min == 32

\* b'moof'
moof == <<109, 111, 111, 102>>

\* struct.pack('>I', v) and struct.unpack('>I', b)[0]
pack_be32(v) == <<(v \div 16777216) % 256, (v \div 65536) % 256,
                  (v \div 256) % 256, v % 256>>
unpack_be32(b) == ((b[1] * 256 + b[2]) * 256 + b[3]) * 256 + b[4]

\* bytearray.find(b'moof'): the index of the first occurrence, or -1
find_moof(buf) ==
    LET hits == {i \in 0..(Len(buf) - Len(moof)) :
                    SubSeq(buf, i + 1, i + Len(moof)) = moof}
    IN IF hits = {} THEN 0 - 1
       ELSE CHOOSE i \in hits : \A j \in hits : i <= j

\* the test the extractor applies to the scratch buffer hb: the first marker
\* has room for a size field before it and that field is plausible
atom_start(hb) == find_moof(hb) - 4
atom_size(hb) == unpack_be32(SubSeq(hb, atom_start(hb) + 1, find_moof(hb)))
accepts_any_size(hb) == find_moof(hb) >= 4
accepts(hb) ==
    /\ find_moof(hb) >= 4
    /\ 8 <= atom_size(hb)
    /\ atom_size(hb) <= Len(hb) - atom_start(hb)

\* the header and its flag after the locked section of _read_output has run
\* on the scratch buffer hb (the chunk already appended)
over_limit_never(hb) == FALSE
over_limit(hb) == Len(hb) > safety_limit
extracted(hb) ==
    IF Len(hb) >= ftyp_min
    THEN IF over_limit(hb)
         THEN [header |-> hb, complete |-> TRUE]
         ELSE IF accepts(hb)
              THEN [header |-> PySliceTo(hb, atom_start(hb)), complete |-> TRUE]
              ELSE [header |-> enc_header, complete |-> enc_header_complete]
    ELSE [header |-> enc_header, complete |-> enc_header_complete]

\* _read_output runs the extractor on a chunk while the header is incomplete
scans_always == TRUE
scans == ~enc_header_complete

(***************************************************************************)
(* What the encoder process writes to its stdout.  The reader thread looks *)
(* only at the marker, at the four bytes before it and at lengths, so the  *)
(* other bytes are filler labelled by their offset, below every byte of    *)
(* the marker.  Every output starts with the container metadata.           *)
(***************************************************************************)
\* the length of the container metadata before the first box
MetadataLen == 30
\* the declared size of a movie-fragment box
BoxSize == 40
StreamLen == safety_limit + read_size + 1
Filler(k, n) == [i \in 1..n |-> (k + i - 1) % 100]
\* a size-prefixed movie-fragment box of the given size at offset k
Box(k, size) == pack_be32(size) \o moof \o Filler(k + 8, size - 8)
\* metadata, then boxes
CleanStream ==
    Filler(0, MetadataLen)
    \o Box(MetadataLen, BoxSize) \o Box(MetadataLen + BoxSize, BoxSize)
    \o Filler(MetadataLen + 2 * BoxSize, StreamLen - (MetadataLen + 2 * BoxSize))
\* the same with the marker's four bytes inside the metadata, at offset 10,
\* where the four bytes before it do not spell a plausible size
AccidentStream ==
    Filler(0, 10) \o moof \o Filler(14, MetadataLen - 14)
    \o Box(MetadataLen, BoxSize) \o Box(MetadataLen + BoxSize, BoxSize)
    \o Filler(MetadataLen + 2 * BoxSize, StreamLen - (MetadataLen + 2 * BoxSize))
\* no marker at all
NoMarkerStream == Filler(0, StreamLen)
\* a first box so large that its last byte lies beyond the safety limit
LargeBoxSize == safety_limit - MetadataLen + read_size \div 4
LargeBoxStream ==
    Filler(0, MetadataLen) \o Box(MetadataLen, LargeBoxSize)
    \o Filler(MetadataLen + LargeBoxSize, StreamLen - (MetadataLen + LargeBoxSize))
Streams == {CleanStream, AccidentStream, NoMarkerStream, LargeBoxStream}

\* how many bytes one read returns while the process lives: a full read, or
\* fewer when that is all the process has written so far
ReadLens == {read_size \div 2, read_size}

nonpipevars == <<call, rdvars, curvars, connvars>>

\* VideoStreamer.start(): FrameEncoder.start() spawns the process and the
\* reader thread, then the pump thread is started.  The owner of the
\* orchestrator calls start() and stop() one after the other, once each.
VsStart ==
    /\ stop_pc = "idle"
    /\ ~vs_running
    /\ srv_state = "none"
    /\ srv_state' = "serving"
    /\ enc_process = "none"
    /\ enc_process' = "alive"
    /\ enc_running' = TRUE
    /\ enc_pc' = "loop"
    /\ vs_running' = TRUE
    /\ pump_pc' = "get"
    /\ UNCHANGED <<bufvars, histvars, nonpipevars, active_connections, conn_kind,
                   stop_pc, wf_returned, finevars, enc_stream, enc_off,
                   enc_header, enc_header_complete, enc_queue, header_buffer,
                   enc_chunk, enc_lost, enc_dropped, wf_calls, wf_raised, frames_written, pump_data,
                   pump_header_set>>

\* the encoder process dies
EncDie ==
    /\ enc_process = "alive"
    /\ enc_process' = "dead"
    /\ UNCHANGED <<bufvars, histvars, nonpipevars, srvvars, enc_stream, enc_off,
                   enc_running, enc_header, enc_header_complete, enc_queue,
                   header_buffer, enc_pc, enc_chunk, enc_lost, enc_dropped, wf_calls, wf_raised,
                   vsvars>>

\* _read_output: the loop test fails
EncLoopExit ==
    /\ enc_pc = "loop"
    /\ ~(enc_running /\ enc_process # "none")
    /\ enc_pc' = "exit"
    /\ UNCHANGED <<bufvars, histvars, nonpipevars, srvvars, enc_stream, enc_off,
                   enc_process, enc_running, enc_header, enc_header_complete,
                   enc_queue, header_buffer, enc_chunk, enc_lost, enc_dropped, wf_calls, wf_raised,
                   vsvars>>

\* _read_output: the loop test passes and the thread blocks in the read
EncLoopTest ==
    /\ enc_pc = "loop"
    /\ enc_running /\ enc_process # "none"
    /\ enc_pc' = "read"
    /\ UNCHANGED <<bufvars, histvars, nonpipevars, srvvars, enc_stream, enc_off,
                   enc_process, enc_running, enc_header, enc_header_complete,
                   enc_queue, header_buffer, enc_chunk, enc_lost, enc_dropped, wf_calls, wf_raised,
                   vsvars>>

\* _read_output: the read returns no bytes, the process being dead (the
\* output it wrote before dying has been read)
EncReadEOF ==
    /\ enc_pc = "read"
    /\ enc_process # "alive"
    /\ enc_pc' = "exit"
    /\ UNCHANGED <<bufvars, histvars, nonpipevars, srvvars, enc_stream, enc_off,
                   enc_process, enc_running, enc_header, enc_header_complete,
                   enc_queue, header_buffer, enc_chunk, enc_lost, enc_dropped, wf_calls, wf_raised,
                   vsvars>>

\* _read_output: one read of n bytes (fewer at the end of the output) and
\* the locked section that extracts the header
EncRead(n) ==
    /\ enc_pc = "read"
    /\ enc_process = "alive"
    /\ enc_off < Len(enc_stream)
    /\ LET chunk == SubSeq(enc_stream, enc_off + 1,
                           Min(enc_off + n, Len(enc_stream)))
           hb == header_buffer \o chunk
       IN /\ enc_chunk' = chunk
          /\ enc_off' = enc_off + Len(chunk)
          /\ IF scans
             THEN /\ header_buffer' = hb
                  /\ enc_header' = extracted(hb).header
                  /\ enc_header_complete' = extracted(hb).complete
             ELSE UNCHANGED <<header_buffer, enc_header, enc_header_complete>>
    /\ enc_pc' = "put"
    /\ UNCHANGED <<bufvars, histvars, nonpipevars, srvvars, enc_stream, enc_process,
                   enc_running, enc_queue, enc_lost, enc_dropped, wf_calls, wf_raised, vsvars>>

\* _read_output: put(chunk, timeout=1) finds room in the queue
EncPut ==
    /\ enc_pc = "put"
    /\ Len(enc_queue) < queue_maxsize
    /\ enc_queue' = Append(enc_queue, enc_chunk)
    /\ enc_pc' = "loop"
    /\ UNCHANGED <<bufvars, histvars, nonpipevars, srvvars, enc_stream, enc_off,
                   enc_process, enc_running, enc_header, enc_header_complete,
                   header_buffer, enc_chunk, enc_lost, enc_dropped, wf_calls, wf_raised, vsvars>>

\* _read_output: the queue stayed full for the whole timeout, put raises Full
EncPutFull ==
    /\ enc_pc = "put"
    /\ Len(enc_queue) >= queue_maxsize
    /\ enc_pc' = "full"
    /\ UNCHANGED <<bufvars, histvars, nonpipevars, srvvars, enc_stream, enc_off,
                   enc_process, enc_running, enc_header, enc_header_complete,
                   enc_queue, header_buffer, enc_chunk, enc_lost, enc_dropped, wf_calls, wf_raised,
                   vsvars>>

\* _read_output: get_nowait() in the handler of Full; it discards the oldest
\* chunk, or raises Empty, which the bare except swallows with the chunk
EncGetNowait ==
    /\ enc_pc = "full"
    /\ IF enc_queue # <<>>
       THEN /\ enc_queue' = Tail(enc_queue)
            /\ enc_dropped' = enc_dropped + 1
            /\ enc_pc' = "reput"
            /\ UNCHANGED enc_lost
       ELSE /\ enc_lost' = enc_lost + 1
            /\ enc_pc' = "loop"
            /\ UNCHANGED <<enc_queue, enc_dropped>>
    /\ UNCHANGED <<bufvars, histvars, nonpipevars, srvvars, enc_stream, enc_off,
                   enc_process, enc_running, enc_header, enc_header_complete,
                   header_buffer, enc_chunk, wf_calls, wf_raised, vsvars>>

\* _read_output: put(chunk, timeout=0.1) after the discard; a Full it raises
\* is swallowed with the chunk
EncReput ==
    /\ enc_pc = "reput"
    /\ IF Len(enc_queue) < queue_maxsize
       THEN /\ enc_queue' = Append(enc_queue, enc_chunk)
            /\ UNCHANGED enc_lost
       ELSE /\ enc_lost' = enc_lost + 1
            /\ UNCHANGED enc_queue
    /\ enc_pc' = "loop"
    /\ UNCHANGED <<bufvars, histvars, nonpipevars, srvvars, enc_stream, enc_off,
                   enc_process, enc_running, enc_header, enc_header_complete,
                   header_buffer, enc_chunk, enc_dropped, wf_calls, wf_raised,
                   vsvars>>

\* _pump_data: read_output(timeout=0.05) returns the oldest queued chunk
\* (an empty queue gives None, a sleep and the next round of the loop)
dequeued_newest(q) == q[Len(q)]
dequeued(q) == Head(q)
PumpGet ==
    /\ pump_pc = "get"
    /\ vs_running
    /\ enc_queue # <<>>
    /\ pump_data' = dequeued(enc_queue)
    /\ enc_queue' = Tail(enc_queue)
    /\ pump_pc' = "write"
    /\ UNCHANGED <<bufvars, histvars, nonpipevars, srvvars, enc_stream, enc_off,
                   enc_process, enc_running, enc_header, enc_header_complete,
                   header_buffer, enc_pc, enc_chunk, enc_lost, enc_dropped, wf_calls, wf_raised,
                   vs_running, frames_written, pump_header_set>>

\* _pump_data: server.write(data), then the header is handed to the server
\* once the encoder adapter reports it ready
pump_sets_header_early == ~pump_header_set
pump_sets_header_never == FALSE
pump_sets_header == ~pump_header_set /\ enc_header_complete
PumpWrite ==
    /\ pump_pc = "write"
    /\ write(pump_data)
    /\ IF pump_sets_header
       THEN /\ set_header(enc_header)
            /\ pump_header_set' = TRUE
       ELSE UNCHANGED <<header, header_ready, first_header, pump_header_set>>
    /\ call' = NoCall
    /\ pump_data' = <<>>
    /\ pump_pc' = "get"
    /\ UNCHANGED <<max_size, rdvars, curvars, connvars, encvars, vs_running,
                   frames_written, srvvars>>

\* FrameEncoder.write_frame: what the write to the process's stdin raises
write_error == IF enc_process = "dead" THEN "BrokenPipeError" ELSE "none"
\* the classes of an exception, and the ones write_frame has handlers for
classes(err) ==
    IF err = "BrokenPipeError"
    THEN {"BrokenPipeError", "OSError", "Exception"}
    ELSE IF err = "AttributeError"
         THEN {"AttributeError", "Exception"}
         ELSE {}
handled_by_none == {}
handled == {"BrokenPipeError", "Exception"}
raises(err) == err # "none" /\ classes(err) \cap handled = {}
\* self._running after the call
write_frame_keeps_running == enc_running
write_frame_running ==
    IF enc_process # "none" /\ write_error = "BrokenPipeError"
    THEN FALSE
    ELSE enc_running

\* the counter of VideoStreamer.write_frame after the call
counted_twice == frames_written + 2
counted ==
    IF enc_process # "none" /\ raises(write_error)
    THEN frames_written
    ELSE frames_written + 1

\* VideoStreamer.write_frame(frame_data), which calls
\* FrameEncoder.write_frame(frame_data) and counts the frame
VsWriteFrame ==
    /\ frames_written < MaxFrames
    /\ enc_running' = write_frame_running
    /\ wf_raised' = (wf_raised \/ (enc_process # "none" /\ raises(write_error)))
    /\ wf_calls' = IF enc_process = "dead" THEN wf_calls + 1 ELSE wf_calls
    /\ frames_written' = counted
    /\ wf_returned' = IF enc_process # "none" /\ raises(write_error)
                      THEN wf_returned
                      ELSE wf_returned + 1
    /\ UNCHANGED <<bufvars, histvars, nonpipevars, srv_state, active_connections,
                   conn_kind, stop_pc, enc_stream, enc_off,
                   enc_process, enc_header, enc_header_complete, enc_queue,
                   header_buffer, enc_pc, enc_chunk, enc_lost, enc_dropped,
                   vs_running, pump_pc, pump_data, pump_header_set,
                   finevars>>

\* the state after VideoStreamer.__init__: nothing is started; the output the
\* encoder process is going to produce is one of Streams
InitPipe ==
    /\ max_size = 2 * read_size
    /\ header = <<>>
    /\ header_ready = FALSE
    /\ buffer = <<>>
    /\ total_written = 0
    /\ written = <<>>
    /\ first_header = <<>>
    /\ call = NoCall
    /\ InitNoReader
    /\ InitNoCursors
    /\ InitConns
    /\ enc_stream \in Streams
    /\ enc_off = 0
    /\ enc_process = "none"
    /\ enc_running = FALSE
    /\ enc_header = <<>>
    /\ enc_header_complete = FALSE
    /\ enc_queue = <<>>
    /\ header_buffer = <<>>
    /\ enc_pc = "idle"
    /\ enc_chunk = <<>>
    /\ enc_lost = 0
    /\ enc_dropped = 0
    /\ wf_calls = 0
    /\ wf_raised = FALSE
    /\ vs_running = FALSE
    /\ frames_written = 0
    /\ pump_pc = "idle"
    /\ pump_data = <<>>
    /\ pump_header_set = FALSE
    /\ InitServer

NextPipe ==
    \/ VsStart
    \/ EncDie
    \/ EncLoopTest
    \/ EncLoopExit
    \/ EncReadEOF
    \/ \E n \in ReadLens : EncRead(n)
    \/ EncPut
    \/ EncPutFull
    \/ EncGetNowait
    \/ EncReput
    \/ PumpGet
    \/ PumpWrite
    \/ VsWriteFrame

SpecPipe == InitPipe /\ [][NextPipe]_vars

(***************************************************************************)
(* VideoStreamer.stop(), step by step as its caller executes it, and the   *)
(* whole composition: orchestrator, encoder adapter, pump, server and      *)
(* connections.  The encoder's output is short here, one read long, so     *)
(* that the connections stay few steps long.                               *)
(***************************************************************************)
\* stop(): self._running = False
VsStopBegin ==
    /\ stop_pc = "idle"
    /\ vs_running' = FALSE
    /\ stop_pc' = "enc"
    /\ UNCHANGED <<bufvars, histvars, nonpipevars, encvars, frames_written,
                   pump_pc, pump_data, pump_header_set, srv_state,
                   active_connections, conn_kind, wf_returned, finevars>>

\* FrameEncoder.stop(): self._running = False
EncStopFlag ==
    /\ stop_pc = "enc"
    /\ enc_running' = FALSE
    /\ stop_pc' = "kill"
    /\ UNCHANGED <<bufvars, histvars, nonpipevars, enc_stream, enc_off,
                   enc_process, enc_header, enc_header_complete, enc_queue,
                   header_buffer, enc_pc, enc_chunk, enc_lost, enc_dropped,
                   wf_calls, wf_raised, vsvars, srv_state, active_connections,
                   conn_kind, wf_returned, finevars>>

\* FrameEncoder.stop(): with a process, its stdin is closed, it exits within
\* the waits or is killed, and self._process = None
EncStopKill ==
    /\ stop_pc = "kill"
    /\ enc_process' = "none"
    /\ stop_pc' = "srv"
    /\ UNCHANGED <<bufvars, histvars, nonpipevars, enc_stream, enc_off,
                   enc_running, enc_header, enc_header_complete, enc_queue,
                   header_buffer, enc_pc, enc_chunk, enc_lost, enc_dropped,
                   wf_calls, wf_raised, vsvars, srv_state, active_connections,
                   conn_kind, wf_returned, finevars>>

\* StreamServer.stop(): with a server, shutdown() asks serve_forever to end
\* and waits for it; without one, stop() returns
SrvShutdown ==
    /\ stop_pc = "srv"
    /\ IF srv_state = "serving"
       THEN srv_state' = "shutdown" /\ stop_pc' = "wait"
       ELSE stop_pc' = "done" /\ UNCHANGED srv_state
    /\ UNCHANGED <<bufvars, histvars, nonpipevars, pipevars, active_connections,
                   conn_kind, wf_returned, finevars>>

\* serve_forever sees the request between two requests and ends; shutdown()
\* returns, self._server = None, stop() returns
SrvStopped ==
    /\ stop_pc = "wait"
    /\ srv_state = "shutdown"
    /\ ~Busy
    /\ srv_state' = "stopped"
    /\ stop_pc' = "done"
    /\ UNCHANGED <<bufvars, histvars, nonpipevars, pipevars, active_connections,
                   conn_kind, wf_returned, finevars>>

\* _pump_data: the loop test fails
PumpExit ==
    /\ pump_pc = "get"
    /\ ~vs_running
    /\ pump_pc' = "exit"
    /\ UNCHANGED <<bufvars, histvars, nonpipevars, srvvars, encvars, vs_running,
                   frames_written, pump_data, pump_header_set>>

\* metadata and one minimal box: one read returns all of it
ShortStream == Filler(0, MetadataLen) \o Box(MetadataLen, 8)

InitStop ==
    /\ max_size = 2 * read_size
    /\ header = <<>>
    /\ header_ready = FALSE
    /\ buffer = <<>>
    /\ total_written = 0
    /\ written = <<>>
    /\ first_header = <<>>
    /\ call = NoCall
    /\ InitNoReader
    /\ InitNoCursors
    /\ InitConns
    /\ enc_stream = ShortStream
    /\ InitIdlePipe
    /\ InitServer

\* an output whose metadata is shorter than one chunk of a connection, as the
\* container metadata of the encoder is: metadata, then one box long enough
\* for the extractor to look at the scratch buffer, all in one read
JoinStream == Filler(1, chunk_size - 1) \o Box(chunk_size - 1, ftyp_min)

InitJoin ==
    /\ max_size = 2 * read_size
    /\ header = <<>>
    /\ header_ready = FALSE
    /\ buffer = <<>>
    /\ total_written = 0
    /\ written = <<>>
    /\ first_header = <<>>
    /\ call = NoCall
    /\ InitNoReader
    /\ InitNoCursors
    /\ InitConns
    /\ enc_stream = JoinStream
    /\ InitIdlePipe
    /\ InitServer

\* everything together; the caller of stop() calls it once, at any moment
NextStop ==
    \/ VsStart
    \/ EncDie
    \/ EncLoopTest
    \/ EncLoopExit
    \/ EncReadEOF
    \/ EncRead(read_size)
    \/ EncPut
    \/ PumpGet
    \/ PumpWrite
    \/ PumpExit
    \/ \E c \in Conns, kind \in Kinds : ConnConnect(c, kind)
    \/ \E c \in Conns : ConnStep(c)
    \/ \E c \in Conns, e \in ConnErrors : ConnError(c, e)
    \/ VsStopBegin
    \/ EncStopFlag
    \/ EncStopKill
    \/ SrvShutdown
    \/ SrvStopped

SpecStop == InitStop /\ [][NextStop]_vars

\* the same composition on the output with the short metadata
SpecJoin == InitJoin /\ [][NextStop]_vars

\* the same where every thread of the program keeps running: the caller of
\* stop() once it has called it, the reader thread, the pump and the server
\* thread.  The encoder process and the clients are free.
SpecStopFair ==
    /\ InitStop
    /\ [][NextStop]_vars
    /\ WF_vars(EncStopFlag \/ EncStopKill \/ SrvShutdown \/ SrvStopped)
    /\ WF_vars(EncLoopTest \/ EncLoopExit \/ EncReadEOF \/ EncPut)
    /\ WF_vars(PumpGet \/ PumpWrite \/ PumpExit)
    /\ \A c \in Conns : WF_vars(ConnStep(c))

(***************************************************************************)
(* Claims about the encoder adapter and the orchestrator                   *)
(***************************************************************************)
\* C15: when the encoder output has the marker's bytes inside the metadata,
\* before the real size-prefixed box and with an implausible size before
\* them, the header the extractor latches is exactly the bytes before the
\* real box: neither a boundary at the earlier occurrence nor the fallback
C15_HeaderAtRealBox ==
    (enc_stream = AccidentStream /\ enc_header_complete)
        => enc_header = SubSeq(enc_stream, 1, MetadataLen)

\* C16: once the encoder adapter reports its header ready, the header stays
\* ready and get_header returns the same bytes after every later step,
\* whatever the encoder emits afterwards
C16_HeaderImmutable ==
    [][enc_header_complete
         => (enc_header_complete' /\ enc_header' = enc_header)]_vars
\* the header is ready and the reader thread has read output past the bytes
\* it scanned
C16_Witness == enc_header_complete /\ enc_off > Len(header_buffer)

\* C17: the output queue never holds more than its capacity, and the chunk
\* the reader thread holds is never the one that is lost: when the queue is
\* full the oldest queued chunk is discarded and the new chunk is enqueued,
\* however the pump's read_output calls interleave
C17_NewestNeverLost ==
    /\ Len(enc_queue) <= queue_maxsize
    /\ enc_lost = 0

\* C18: FrameEncoder.write_frame on a dead encoder process returns without
\* raising and leaves the adapter's running flag false, at the first such
\* call and at every later one
C18_DeadWriteFrame ==
    /\ ~wf_raised
    /\ wf_calls > 0 => ~enc_running
\* two calls have been made on a dead process
C18_Witness == wf_calls >= 2 /\ ~enc_running /\ ~wf_raised

\* a step that is the death of the encoder process or a write_frame call made
\* after it
DeathOrLaterCall ==
    \/ enc_process = "alive" /\ enc_process' = "dead"
    \/ wf_calls' # wf_calls
\* the positions a reader can be at: the start of the window and the chunk
\* boundaries up to total_written
ReaderPositions ==
    {trim_start, total_written}
    \cup {p \in 0..total_written : p % (read_size \div 2) = 0}
\* a reader at any of them gets every retained byte from its position on
RetainedReadable ==
    \A p \in ReaderPositions :
       read_from(p, FALSE, NoneMB).data
           = SubSeq(written, Max(p, trim_start) + 1, total_written)

\* C19: the death of the encoder and the write_frame calls after it change
\* nothing in the ring buffer (header, retained window, total_written), and
\* every retained byte can still be read afterwards
C19_DeathLeavesBuffer ==
    [][DeathOrLaterCall
         => /\ header' = header
            /\ header_ready' = header_ready
            /\ buffer' = buffer
            /\ total_written' = total_written
            /\ RetainedReadable']_vars
\* the process died with a header and bytes in the ring buffer, and
\* write_frame was called afterwards
C19_Witness ==
    /\ enc_process = "dead"
    /\ wf_calls >= 1
    /\ header_ready
    /\ buffer # <<>>
    /\ trim_start > 0

\* a VideoStreamer.write_frame call made after an earlier call hit the broken
\* pipe and marked the adapter not running
FurtherCall == wf_calls >= 1 /\ ~enc_running /\ wf_calls' # wf_calls
\* the fields of the encoder adapter and of the orchestrator, the frame
\* counter apart
AdapterState == <<enc_process, enc_running, enc_header, enc_header_complete,
                  enc_queue, header_buffer, enc_pc, enc_chunk>>
OrchestratorState == <<vs_running, pump_pc, pump_data, pump_header_set>>

\* C20, as stated: after the adapter has marked itself not-running because
\* of a pipe break, every further VideoStreamer.write_frame call raises
\* nothing and leaves all orchestrator and adapter state unchanged
C20_FurtherCallsNoOp ==
    [][FurtherCall
         => /\ ~wf_raised'
            /\ UNCHANGED <<AdapterState, OrchestratorState, frames_written>>]_vars
\* C20, amended: such a call raises nothing and leaves the adapter, the ring
\* buffer and the orchestrator unchanged except for frames_written, which it
\* increments by one
C20_FurtherCallsOnlyCount ==
    [][FurtherCall
         => /\ ~wf_raised'
            /\ UNCHANGED <<AdapterState, OrchestratorState, bufvars>>
            /\ frames_written' = frames_written + 1]_vars
\* a second call was made after the one that hit the broken pipe
C20_Witness ==
    /\ wf_calls >= 2
    /\ frames_written >= wf_calls
    /\ enc_process = "dead"
    /\ ~enc_running

\* C21: with one producer, frames_written equals the number of
\* VideoStreamer.write_frame calls that have returned: every call that
\* returns increments it by exactly one, and no step decreases it
C21_FramesCounted ==
    /\ [](frames_written = wf_returned)
    /\ [][/\ frames_written' >= frames_written
          /\ wf_returned' # wf_returned
               => frames_written' = frames_written + 1]_vars
\* calls have returned with the process alive and with the process dead
C21_Witness ==
    /\ wf_returned = MaxFrames
    /\ wf_calls >= 1
    /\ wf_calls < wf_returned

(***************************************************************************)
(* Claims about the HTTP server and its connections                        *)
(***************************************************************************)
\* the connections that were accepted and whose handler has not finished
InService == {c \in Conns : conn_state[c] \in Handling \ {"finished"}}

\* C22: get_active_connections() is the number of connections that were
\* accepted and have not completed (compared whenever no handler is between
\* its finish() and the end of its __init__), and it is never negative
C22_ActiveCount ==
    /\ active_connections >= 0
    /\ (\A c \in Conns : conn_state[c] # "finished")
          => active_connections = Cardinality(InService)

\* C23: a GET /health request eventually gets its 200 response whatever the
\* streaming state, also while other connections wait for the header or are
\* in the streaming loop
C23_HealthAnswered ==
    \A c \in Conns :
       (conn_state[c] = "queued" /\ conn_kind[c] = "health")
           ~> (conn_state[c] \in {"answered", "finished", "done"})

\* C24: a client that connects for the stream while another client is in
\* the streaming loop still reaches the streaming state itself
C24_OwnThread ==
    \A c \in Conns :
       (/\ conn_state[c] = "queued" /\ conn_kind[c] = "stream"
        /\ header_ready
        /\ \E d \in Conns \ {c} : conn_state[d] = "streaming")
           ~> (conn_state[c] = "streaming")

\* C25: a stream connection sends no 200 and no body byte while the header
\* is not ready: it enters the streaming state only from await-header with
\* the header ready, and has no body before; when the wait times out it
\* answers 503 with the header still not ready, sends no body and never
\* enters the streaming state
C25_AwaitHeader ==
    /\ [](\A c \in Conns :
            conn_state[c] \in {"new", "queued", "await", "refused"}
                => conn_body[c] = <<>>)
    /\ [][\A c \in Conns :
            /\ (conn_state[c] # "streaming" /\ conn_state'[c] = "streaming")
                  => (conn_state[c] = "await" /\ header_ready)
            /\ (conn_state[c] # "refused" /\ conn_state'[c] = "refused")
                  => (conn_state[c] = "await" /\ ~header_ready)
            /\ conn_state[c] = "refused" => conn_state'[c] \in {"refused", "finished"}
            /\ conn_state[c] \in {"finished", "done"}
                  => conn_state'[c] \in {"finished", "done"}]_vars
\* a connection was refused and the header became ready afterwards, with
\* data in the buffer
C25_Witness ==
    \E c \in Conns :
       /\ conn_state[c] = "refused"
       /\ header_ready
       /\ total_written > 0

\* connection c leaves the streaming loop because of an error
Breaks(c) ==
    conn_state[c] = "streaming" /\ conn_state'[c] \in {"closed", "crashed"}

\* C28: an error on one connection ends only that connection's loop: no
\* exception leaves the handler, and the step changes nothing in the ring
\* buffer, the pump, the encoder adapter or any other connection
C28_ErrorIsLocal ==
    /\ [](\A c \in Conns : conn_state[c] # "crashed")
    /\ [][\A c \in Conns :
            Breaks(c)
              => /\ UNCHANGED <<bufvars, encvars, vsvars>>
                 /\ \A d \in Conns \ {c} :
                       /\ conn_state'[d] = conn_state[d]
                       /\ conn_position'[d] = conn_position[d]
                       /\ conn_first_read'[d] = conn_first_read[d]
                       /\ conn_body'[d] = conn_body[d]]_vars
\* a connection that had received bytes broke off while another client was
\* waiting to be served, and that client is then served
C28_Witness ==
    \E c \in Conns, d \in Conns :
       /\ c # d
       /\ conn_state[c] = "done"
       /\ conn_body[c] # <<>>
       /\ conn_hdr_reads[c] > 0
       /\ conn_state[d] = "streaming"
       /\ conn_body[d] # <<>>

\* C29: the writer is never blocked by readers: in every state, however far
\* behind or stalled a connection's cursor is, a write of any chunk can be
\* made and is one step that waits for no client, and the retained window
\* stays within max_size
C29_WriterNeverBlocked ==
    /\ \A n \in 1..MaxChunk : ENABLED Write(PayloadFrom(total_written, n))
    /\ Len(buffer) <= max_size
\* a streaming connection has stalled so far behind that the bytes at its
\* cursor were trimmed away by later writes
C29_Witness ==
    \E c \in Conns :
       /\ conn_state[c] = "streaming"
       /\ ~conn_first_read[c]
       /\ conn_position[c] < trim_start
       /\ total_written = MaxTotal

(***************************************************************************)
(* Claims about VideoStreamer.stop()                                       *)
(***************************************************************************)
\* C26: VideoStreamer.stop() returns, whatever the state it is called in,
\* also while clients are connected and streaming; and when it has returned
\* the encoder process is gone and the listener serves no request
C26_StopReturns ==
    /\ (stop_pc # "idle") ~> (stop_pc = "done")
    /\ [](stop_pc = "done" => (enc_process = "none" /\ srv_state # "serving"))

\* C27: after stop() has set the running flag false, the encoder reader
\* loop, the pump loop and every connection's streaming loop each exit
C27_LoopsExit ==
    (stop_pc # "idle")
        ~> (/\ enc_pc \in {"idle", "exit"}
            /\ pump_pc \in {"idle", "exit"}
            /\ \A c \in Conns : conn_state[c] # "streaming")

\* C30: after VideoStreamer.stop() has completed, the ring buffer holds no
\* retained bytes and no header and reports the header as not ready, and
\* the encoder adapter holds no captured header
C30_NothingPersists ==
    stop_pc = "done"
        => /\ buffer = <<>>
           /\ header = <<>>
           /\ ~header_ready
           /\ enc_header = <<>>
           /\ ~enc_header_complete

(***************************************************************************)
(* Claims about the header extractor                                       *)
(***************************************************************************)
\* a step of the reader thread in which the locked section of _read_output
\* ran on a chunk while the header was not complete; header_buffer' is the
\* scratch buffer the section examined
ScanStep == enc_pc = "read" /\ enc_pc' = "put" /\ ~enc_header_complete

\* C31 as stated: the first marker match is accepted as the header boundary only
\* if the size field in the four bytes before it is at least 8 and at most
\* the number of scratch-buffer bytes that lie before that position; any
\* other candidate leaves the header unlatched and the buffer accumulating
C31_PlausibleSizeBefore ==
    [][ScanStep =>
        LET hb == header_buffer'
            plausible == /\ find_moof(hb) >= 4
                         /\ 8 <= atom_size(hb)
                         /\ atom_size(hb) <= atom_start(hb)
        IN /\ hb = header_buffer \o enc_chunk'
           /\ (find_moof(hb) >= 0 /\ ~plausible)
                 => (~enc_header_complete' /\ enc_header' = enc_header)]_vars

\* C31, amended: the first marker match is accepted as the header boundary
\* only if the size field in the four bytes before it is at least 8 and at
\* most the number of scratch-buffer bytes from the size field to the end of
\* the buffer; any other candidate leaves the header unlatched and the
\* buffer accumulating, until the buffer is longer than the safety limit
C31_PlausibleSizeFrom ==
    [][ScanStep =>
        LET hb == header_buffer'
            pos == find_moof(hb)
            size == unpack_be32(SubSeq(hb, pos - 3, pos))
            plausible == /\ pos >= 4
                         /\ 8 <= size
                         /\ size <= Len(hb) - (pos - 4)
        IN /\ hb = header_buffer \o enc_chunk'
           /\ (pos >= 0 /\ ~plausible /\ Len(hb) <= safety_limit)
                 => (~enc_header_complete' /\ enc_header' = enc_header)]_vars
\* a boundary was accepted in a buffer within the safety limit, after a
\* first look at the same marker whose box was not complete yet
C31_Witness ==
    /\ enc_stream = CleanStream
    /\ enc_header_complete
    /\ Len(header_buffer) <= safety_limit
    /\ Len(header_buffer) > 2 * (read_size \div 2)

\* C32: whenever the extractor accepts a box boundary, the header that
\* get_header returns after the chunk has been processed is exactly the
\* scratch-buffer bytes before the accepted box's size field, however long
\* the scratch buffer is at that moment
C32_HeaderPrecedesBox ==
    [][ScanStep =>
        LET hb == header_buffer'
        IN (Len(hb) >= ftyp_min /\ accepts(hb))
              => (/\ enc_header_complete'
                  /\ enc_header' = SubSeq(hb, 1, find_moof(hb) - 4))]_vars

\* C33: the scratch buffer is never longer than the safety limit plus one
\* read; once it is longer than the safety limit the header is complete and
\* equal to the whole scratch buffer, and the buffer no longer grows
C33_SafetyValve ==
    /\ [](Len(header_buffer) <= safety_limit + read_size)
    /\ [](Len(header_buffer) > safety_limit
            => (enc_header_complete /\ enc_header = header_buffer))
    /\ [][Len(header_buffer) > safety_limit
            => header_buffer' = header_buffer]_vars
\* the fallback fired with no marker seen and the reader thread read on
C33_Witness ==
    /\ enc_stream = NoMarkerStream
    /\ Len(header_buffer) > safety_limit
    /\ enc_off > Len(header_buffer)

(***************************************************************************)
(* Claims about the pump                                                   *)
(***************************************************************************)
\* C34: the pump calls set_header on the buffer at most once, only after the
\* encoder adapter's extraction has completed and with exactly the adapter's
\* header; the buffer's header never changes once is_header_ready is true
C34_PumpLatchesOnce ==
    /\ [][(header' # header \/ header_ready' # header_ready
            \/ pump_header_set' # pump_header_set)
           => (/\ ~pump_header_set /\ pump_header_set'
               /\ ~header_ready /\ header_ready'
               /\ enc_header_complete
               /\ header' = enc_header)]_vars
    /\ [][header_ready => (header_ready' /\ header' = header)]_vars
    /\ [](header_ready => header = enc_header)
\* the pump has stored the header and is writing a later chunk
C34_Witness ==
    /\ header_ready /\ header # <<>>
    /\ pump_header_set
    /\ pump_pc = "write"
    /\ total_written > 0

(***************************************************************************)
(* Claims about the progress of a streaming connection                     *)
(***************************************************************************)
\* C40: whenever a streaming connection's has_new_data(position) is true,
\* the read_from call it makes next returns a non-empty chunk and a position
\* beyond the connection's, for every max_size > 0
C40_StreamingProgress ==
    \A c \in Conns :
        (conn_state[c] = "streaming" /\ has_new_data(conn_position[c]))
            => LET r == read_from(conn_position[c], conn_first_read[c],
                                  SomeMB(chunk_size))
               IN /\ r.data # <<>>
                  /\ r.new_position > conn_position[c]

(***************************************************************************)
(* Claims about the whole path from the encoder to a client                *)
(***************************************************************************)
\* C38: the body delivered to a client that joins before any trimming is the
\* encoder's output from its start: the bytes sent so far are a prefix of
\* the encoder's byte stream, the metadata once, nothing duplicated and
\* nothing skipped
C38_BodyIsEncoderOutput ==
    \A c \in Conns :
        (trim_start = 0 /\ conn_kind[c] = "stream")
            => StartsWith(enc_stream, conn_body[c])

(***************************************************************************)
(* The reader thread and the pump while the orchestrator runs and the      *)
(* encoder process lives: the process writes its output at its own pace    *)
(* and may stop writing after any chunk; the two threads keep running.     *)
(***************************************************************************)
InitPump ==
    /\ max_size = 2 * read_size
    /\ header = <<>>
    /\ header_ready = FALSE
    /\ buffer = <<>>
    /\ total_written = 0
    /\ written = <<>>
    /\ first_header = <<>>
    /\ call = NoCall
    /\ InitNoReader
    /\ InitNoCursors
    /\ InitConns
    /\ enc_stream \in Streams \cup {ShortStream}
    /\ InitIdlePipe
    /\ InitServer

\* the steps the reader thread takes by itself (a read returns only when
\* the process has written)
ReaderStep ==
    \/ EncLoopTest
    \/ EncPut
    \/ EncPutFull
    \/ EncGetNowait
    \/ EncReput

PumpStep == PumpGet \/ PumpWrite

NextPump ==
    \/ VsStart
    \/ \E n \in ReadLens : EncRead(n)
    \/ ReaderStep
    \/ PumpStep

SpecPump ==
    /\ InitPump
    /\ [][NextPump]_vars
    /\ WF_vars(ReaderStep)
    /\ WF_vars(PumpStep)

\* C36: once the encoder adapter's header is complete while the pump runs,
\* the buffer's is_header_ready eventually becomes true, also when the
\* encoder writes nothing after the chunk that completed the header and
\* when the queue has overflowed
C36_HeaderReachesBuffer == enc_header_complete ~> header_ready
\* the buffer's header is ready although chunks were lost to an overflow
C36_Witness ==
    /\ header_ready
    /\ enc_dropped + enc_lost > 0

\* the chunks of the queue, oldest first, as one byte sequence
RECURSIVE Flat(_)
Flat(q) == IF q = <<>> THEN <<>> ELSE Head(q) \o Flat(Tail(q))
\* the chunk the reader thread has read and not yet enqueued
InHand == IF enc_pc \in {"put", "full", "reput"} THEN enc_chunk ELSE <<>>

\* C37: the buffer's logical stream is the concatenation of the chunks the
\* pump dequeued, in the order the encoder emitted them: the pump takes the
\* oldest chunk and appends it whole, the queue changes only by its head
\* leaving or the reader's chunk joining its tail; while no chunk has been
\* lost to an overflow, the logical stream followed by what the pump, the
\* queue and the reader hold is the encoder's output read so far; and the
\* queue is eventually drained into the buffer
C37_ChunksInOrder ==
    /\ [][(pump_pc = "get" /\ pump_pc' = "write")
            => (pump_data' = Head(enc_queue) /\ enc_queue' = Tail(enc_queue))]_vars
    /\ [][(pump_pc = "write" /\ pump_pc' = "get")
            => written' = written \o pump_data]_vars
    /\ [][written' # written => pump_pc = "write"]_vars
    /\ [][(enc_queue' # enc_queue)
            => (\/ enc_queue # <<>> /\ enc_queue' = Tail(enc_queue)
                \/ enc_queue' = Append(enc_queue, enc_chunk))]_vars
    /\ []((enc_lost = 0 /\ enc_dropped = 0)
            => written \o pump_data \o Flat(enc_queue) \o InHand
                 = SubSeq(enc_stream, 1, enc_off))
    /\ <>[](enc_queue = <<>> /\ pump_data = <<>>)
\* several chunks went through the queue without loss and all are written
C37_Witness ==
    /\ enc_lost = 0 /\ enc_dropped = 0
    /\ enc_off = Len(enc_stream)
    /\ enc_stream = CleanStream
    /\ written = enc_stream

(***************************************************************************)
(* FrameEncoder.write_frame statement by statement, executed by the        *)
(* producer thread while the owner may be inside stop().  The method reads *)
(* self._process three times: twice in the condition of its if, outside    *)
(* the try, and again inside the try; stop() assigns None to it.           *)
(***************************************************************************)
\* the first operand of the condition, self._process: when it is None the
\* method returns at once and VideoStreamer.write_frame counts the frame
WfEnter ==
    /\ vs_running \/ stop_pc # "idle"
    /\ wf_pc = "idle"
    /\ wf_returned < MaxFrames
    /\ IF enc_process = "none"
       THEN /\ frames_written' = frames_written + 1
            /\ wf_returned' = wf_returned + 1
            /\ UNCHANGED wf_pc
       ELSE /\ wf_pc' = "checked"
            /\ UNCHANGED <<frames_written, wf_returned>>
    /\ UNCHANGED <<bufvars, histvars, nonpipevars, encvars, vs_running, pump_pc,
                   pump_data, pump_header_set, srv_state, active_connections,
                   conn_kind, stop_pc, lock_holder, lk_pc>>

\* the second operand, self._process.stdin: self._process is read again, and
\* None has no attribute stdin; the AttributeError is raised outside the try
\* and leaves write_frame and VideoStreamer.write_frame
stdin_error == IF enc_process = "none" THEN "AttributeError" ELSE "none"
WfStdin ==
    /\ wf_pc = "checked"
    /\ wf_pc' = IF stdin_error = "none" THEN "try" ELSE "raised"
    /\ wf_raised' = (wf_raised \/ stdin_error # "none")
    /\ UNCHANGED <<bufvars, histvars, nonpipevars, enc_stream, enc_off,
                   enc_process, enc_running, enc_header, enc_header_complete,
                   enc_queue, header_buffer, enc_pc, enc_chunk, enc_lost,
                   enc_dropped, wf_calls, vsvars, srv_state, active_connections,
                   conn_kind, stop_pc, wf_returned, lock_holder, lk_pc>>

\* the try block: self._process.stdin.write and flush; what they raise is
\* handled or not by the except clauses
try_error == IF enc_process = "none" THEN "AttributeError" ELSE write_error
WfWrite ==
    /\ wf_pc = "try"
    /\ enc_running' = IF try_error = "BrokenPipeError" THEN FALSE ELSE enc_running
    /\ wf_calls' = IF enc_process = "dead" THEN wf_calls + 1 ELSE wf_calls
    /\ IF raises(try_error)
       THEN /\ wf_pc' = "raised"
            /\ wf_raised' = TRUE
            /\ UNCHANGED <<frames_written, wf_returned>>
       ELSE /\ wf_pc' = "idle"
            /\ frames_written' = frames_written + 1
            /\ wf_returned' = wf_returned + 1
            /\ UNCHANGED wf_raised
    /\ UNCHANGED <<bufvars, histvars, nonpipevars, enc_stream, enc_off,
                   enc_process, enc_header, enc_header_complete, enc_queue,
                   header_buffer, enc_pc, enc_chunk, enc_lost, enc_dropped,
                   vs_running, pump_pc, pump_data, pump_header_set, srv_state,
                   active_connections, conn_kind, stop_pc, lock_holder, lk_pc>>

\* the producer thread and the caller of stop(), with the encoder process
NextRace ==
    \/ VsStart
    \/ EncDie
    \/ WfEnter
    \/ WfStdin
    \/ WfWrite
    \/ VsStopBegin
    \/ EncStopFlag
    \/ EncStopKill
    \/ SrvShutdown
    \/ SrvStopped
    \/ PumpExit

SpecRace == InitStop /\ [][NextRace]_vars

\* C39: write_frame executed by the producer thread while stop() runs never
\* raises, under any interleaving of the two: it writes the frame or does
\* nothing
C39_WriteFrameNeverRaises == wf_pc # "raised"

(***************************************************************************)
(* The locked sections of the program.  Each thread is a cycle of          *)
(* statements of three kinds: a blocking call ("io"), entering a with      *)
(* block of a lock ("acquire") and leaving it ("release").  A statement    *)
(* leads from one position of its thread to the next.                      *)
(***************************************************************************)
Stmt(t, from, kind, lock, to) ==
    [thread |-> t, from |-> from, kind |-> kind, lock |-> lock, to |-> to]

\* FrameEncoder._read_output: read, the locked extraction, put
ReaderProgram ==
    { Stmt("reader", "read", "io", "none", "lock_header"),
      Stmt("reader", "lock_header", "acquire", "header_lock", "scan"),
      Stmt("reader", "scan", "release", "header_lock", "put"),
      Stmt("reader", "put", "io", "none", "read") }

\* VideoStreamer._pump_data: read_output, server.write, is_header_ready,
\* and, once, get_header and server.set_header
PumpProgram ==
    { Stmt("pump", "get", "io", "none", "lock_write"),
      Stmt("pump", "lock_write", "acquire", "buffer_lock", "write"),
      Stmt("pump", "write", "release", "buffer_lock", "lock_ready"),
      Stmt("pump", "lock_ready", "acquire", "header_lock", "ready"),
      Stmt("pump", "ready", "release", "header_lock", "get"),
      Stmt("pump", "ready", "release", "header_lock", "lock_header"),
      Stmt("pump", "lock_header", "acquire", "header_lock", "header"),
      Stmt("pump", "header", "release", "header_lock", "lock_set"),
      Stmt("pump", "lock_set", "acquire", "buffer_lock", "set"),
      Stmt("pump", "set", "release", "buffer_lock", "get") }

\* the server thread: it accepts a request and runs its handler, whose loop
\* asks the buffer (is_header_ready, has_new_data), reads from it, writes to
\* the socket and sleeps; when the handler is done, finish() and then the
\* end of TrackingHandler.__init__ update the connection count
ServerProgram ==
    { Stmt("server", "accept", "io", "none", "lock_new"),
      Stmt("server", "lock_new", "acquire", "buffer_lock", "new"),
      Stmt("server", "new", "release", "buffer_lock", "lock_read"),
      Stmt("server", "new", "release", "buffer_lock", "send"),
      Stmt("server", "lock_read", "acquire", "buffer_lock", "read_from"),
      Stmt("server", "read_from", "release", "buffer_lock", "send"),
      Stmt("server", "send", "io", "none", "lock_new"),
      Stmt("server", "send", "io", "none", "lock_finish"),
      Stmt("server", "lock_finish", "acquire", "connection_lock", "finish"),
      Stmt("server", "finish", "release", "connection_lock", "lock_count"),
      Stmt("server", "lock_count", "acquire", "connection_lock", "count"),
      Stmt("server", "count", "release", "connection_lock", "accept") }

\* the owner asks get_active_connections()
OwnerProgram ==
    { Stmt("owner", "idle", "acquire", "connection_lock", "asked"),
      Stmt("owner", "asked", "release", "connection_lock", "idle") }

Program == ReaderProgram \cup PumpProgram \cup ServerProgram \cup OwnerProgram

otherthanlocks == <<bufvars, histvars, call, rdvars, curvars, connvars, pipevars,
                    srv_state, active_connections, conn_kind, stop_pc,
                    wf_returned, wf_pc>>

\* a blocking call returns
LkIo(s) ==
    /\ s.kind = "io"
    /\ lk_pc[s.thread] = s.from
    /\ lk_pc' = [lk_pc EXCEPT ![s.thread] = s.to]
    /\ UNCHANGED <<lock_holder, otherthanlocks>>

\* the thread enters a with block: it waits until the lock is free
LkAcquire(s) ==
    /\ s.kind = "acquire"
    /\ lk_pc[s.thread] = s.from
    /\ lock_holder[s.lock] = "free"
    /\ lock_holder' = [lock_holder EXCEPT ![s.lock] = s.thread]
    /\ lk_pc' = [lk_pc EXCEPT ![s.thread] = s.to]
    /\ UNCHANGED otherthanlocks

\* the thread leaves the with block
released_never(l) == lock_holder
released(l) == [lock_holder EXCEPT ![l] = "free"]
LkRelease(s) ==
    /\ s.kind = "release"
    /\ lk_pc[s.thread] = s.from
    /\ lock_holder' = released(s.lock)
    /\ lk_pc' = [lk_pc EXCEPT ![s.thread] = s.to]
    /\ UNCHANGED otherthanlocks

NextLocks ==
    \/ \E s \in Program : LkIo(s)
    \/ \E s \in Program : LkAcquire(s)
    \/ \E s \in Program : LkRelease(s)

SpecLocks == InitStop /\ [][NextLocks]_vars

\* the positions at which a thread is inside a blocking call
Blocking(t) == {s.from : s \in {p \in Program : p.thread = t /\ p.kind = "io"}}

\* C35: no thread holds a lock while it is at a blocking call: not the
\* header lock across the encoder read or the queue put, not the buffer lock
\* across a socket write or flush, not the connection-count lock while a
\* request is served
C35_NoLockAcrossIO ==
    \A t \in Threads :
        lk_pc[t] \in Blocking(t) => \A l \in Locks : lock_holder[l] # t
\* the reader thread waits in put and the server thread in a socket write
\* while the pump is inside a locked section of the lock each of them uses
C35_Witness ==
    /\ lk_pc["reader"] = "put"
    /\ lk_pc["server"] = "send"
    /\ lock_holder["header_lock"] = "pump"
====
